---- MODULE Spec2Model ----
(***************************************************************************)
(* Model of the Grok desktop shell (src/main.js): the domain policy, the   *)
(* restore-state store, the single-instance coordinator, the navigation    *)
(* interceptors and the shell window controller.                           *)
(*                                                                         *)
(* URL strings are TLA+ strings; they are parsed character by character.   *)
(***************************************************************************)
EXTENDS Integers, Sequences, FiniteSets, TLC

(***************************************************************************)
(* Strings                                                                 *)
(***************************************************************************)
Ch(s, i) == SubSeq(s, i, i)

UpperAlpha == "ABCDEFGHIJKLMNOPQRSTUVWXYZ"
LowerAlpha == "abcdefghijklmnopqrstuvwxyz"
Digits == "0123456789"

CharsOf(s) == {Ch(s, i) : i \in 1..Len(s)}

lowerChar(c) ==
  IF c \in CharsOf(UpperAlpha)
  THEN Ch(LowerAlpha, CHOOSE i \in 1..Len(UpperAlpha) : Ch(UpperAlpha, i) = c)
  ELSE c

RECURSIVE toLowerCase(_)
toLowerCase(s) ==
  IF s = "" THEN "" ELSE lowerChar(Ch(s, 1)) \o toLowerCase(Tail(s))

\* String.prototype.endsWith
endsWith(s, suffix) ==
  /\ Len(s) >= Len(suffix)
  /\ SubSeq(s, Len(s) - Len(suffix) + 1, Len(s)) = suffix

\* index of the first character of s that is in set C, 0 if there is none
FirstIn(s, C) ==
  IF \E i \in 1..Len(s) : Ch(s, i) \in C
  THEN CHOOSE i \in 1..Len(s) :
         /\ Ch(s, i) \in C
         /\ \A j \in 1..(i - 1) : Ch(s, j) \notin C
  ELSE 0

\* index of the last character of s that is in set C, 0 if there is none
LastIn(s, C) ==
  IF \E i \in 1..Len(s) : Ch(s, i) \in C
  THEN CHOOSE i \in 1..Len(s) :
         /\ Ch(s, i) \in C
         /\ \A j \in (i + 1)..Len(s) : Ch(s, j) \notin C
  ELSE 0

\* s without its leading characters that are in C
RECURSIVE DropLeading(_, _)
DropLeading(s, C) ==
  IF s # "" /\ Ch(s, 1) \in C THEN DropLeading(Tail(s), C) ELSE s

(***************************************************************************)
(* new URL(urlString): the WHATWG parser, for absolute URLs without a      *)
(* base: scheme, authority (userinfo, host, port).  A failure is the       *)
(* TypeError the callers catch.                                            *)
(***************************************************************************)
SpecialSchemes == {"http", "https", "ftp", "ws", "wss"}
SchemeChars == CharsOf(LowerAlpha) \cup CharsOf(Digits) \cup {"+", "-", "."}
ForbiddenHostChars == {" ", "<", ">", "[", "]", "^", "|", "%", "@", ":"}

ParseFailure == [ok |-> FALSE, protocol |-> "", hostname |-> ""]

\* authority = [userinfo "@"] host [":" port]
ParseAuthority(scheme, authority, special) ==
  LET at == LastIn(authority, {"@"})
      hostport == SubSeq(authority, at + 1, Len(authority))
      colon == LastIn(hostport, {":"})
      host == IF colon = 0 THEN hostport ELSE SubSeq(hostport, 1, colon - 1)
      port == IF colon = 0 THEN "" ELSE SubSeq(hostport, colon + 1, Len(hostport))
  IN  IF \/ CharsOf(port) \ CharsOf(Digits) # {}
         \/ CharsOf(host) \cap ForbiddenHostChars # {}
         \/ (special /\ host = "")
      THEN ParseFailure
      ELSE [ok |-> TRUE,
            protocol |-> scheme \o ":",
            hostname |-> IF special \/ scheme = "file"
                         THEN toLowerCase(host) ELSE host]

newURL(urlString) ==
  LET colon == FirstIn(urlString, {":"})
      scheme == toLowerCase(SubSeq(urlString, 1, colon - 1))
      rest == SubSeq(urlString, colon + 1, Len(urlString))
  IN  IF \/ colon <= 1
         \/ Ch(scheme, 1) \notin CharsOf(LowerAlpha)
         \/ CharsOf(scheme) \ SchemeChars # {}
      THEN ParseFailure
      ELSE IF scheme \in SpecialSchemes
      THEN LET r == DropLeading(rest, {"/", "\\"})
               stop == FirstIn(r, {"/", "\\", "?", "#"})
               authority == IF stop = 0 THEN r ELSE SubSeq(r, 1, stop - 1)
           IN  ParseAuthority(scheme, authority, TRUE)
      ELSE IF Len(rest) >= 2 /\ SubSeq(rest, 1, 2) = "//"
      THEN LET r == SubSeq(rest, 3, Len(rest))
               stop == FirstIn(r, {"/", "?", "#"})
               authority == IF stop = 0 THEN r ELSE SubSeq(r, 1, stop - 1)
           IN  ParseAuthority(scheme, authority, FALSE)
      ELSE [ok |-> TRUE, protocol |-> scheme \o ":", hostname |-> ""]

(***************************************************************************)
(* Domain policy                                                           *)
(***************************************************************************)
ALLOWED_HOSTS_WwwOnly ==
  << "www.grok.com", "x.ai", "cloudflare.com", "xai.com",
     "cloudflareinsights.com", "grokipedia.com", "grokusercontent.com" >>

ALLOWED_HOSTS ==
  << "grok.com", "x.ai", "cloudflare.com", "xai.com",
     "cloudflareinsights.com", "grokipedia.com", "grokusercontent.com" >>

DEFAULT_URL == "https://grok.com/"

\* a host matches an allow-list entry
hostMatchesNoDot(host, a) == host = a \/ endsWith(host, a)

hostMatches(host, a) == host = a \/ endsWith(host, "." \o a)

isAllowed(urlString) ==
  LET u == newURL(urlString)
  IN  IF ~u.ok THEN FALSE
      ELSE IF u.protocol # "https:" THEN FALSE
      ELSE LET host == toLowerCase(u.hostname)
           IN  \E i \in 1..Len(ALLOWED_HOSTS) : hostMatches(host, ALLOWED_HOSTS[i])

isHttpUrlHttpsOnly(u) == u.protocol = "https:"

isHttpUrl(u) == u.protocol = "http:" \/ u.protocol = "https:"

shouldOpenExternally(targetUrl) ==
  LET u == newURL(targetUrl)
  IN  IF ~u.ok THEN FALSE
      ELSE IF ~isHttpUrl(u) THEN FALSE
      ELSE ~isAllowed(targetUrl)

(***************************************************************************)
(* JavaScript values and the record of what a callback did                 *)
(***************************************************************************)
JsNull == [null |-> TRUE, str |-> ""]
JsStr(s) == [null |-> FALSE, str |-> s]
Truthy(v) == ~v.null /\ v.str # ""
\* no value: the call did not return, an exception propagates to the caller
JsThrow == [null |-> TRUE, str |-> "Error"]

Call(op, arg) == [op |-> op, arg |-> arg]
Ops(cs) == {cs[i].op : i \in 1..Len(cs)}
Count(cs, c) == Cardinality({i \in 1..Len(cs) : cs[i] = c})
CountOp(cs, op) == Cardinality({i \in 1..Len(cs) : cs[i].op = op})
(***************************************************************************)
(* Bounds and inputs                                                       *)
(***************************************************************************)
MaxPendingSI == 1   \* second-instance signals in flight
MaxNotifs == 1      \* notifications on screen
MaxWins == 2        \* BrowserWindow objects alive at once

\* Date.now()
Times == {1}
WinIds == 1..MaxWins

CHAT_URL == "https://grok.com/chat/1"
EVIL_URL == "https://evil.net/"

\* URLs the page and the user drive the shell with
EventUrls ==
  { CHAT_URL, "http://grok.com/", EVIL_URL, "mailto:a@grok.com", "about:blank",
    "not a url" }

\* URLs a restore-state file found at launch may hold
FileUrls == { DEFAULT_URL, CHAT_URL, EVIL_URL }

\* every URL string that occurs
KnownUrls == EventUrls \cup FileUrls \cup {""}

\* the policy and the parser, evaluated once for the URLs that occur
newURLOf == [u \in KnownUrls |-> newURL(u)]
isAllowedOf == [u \in KnownUrls |-> isAllowed(u)]
shouldOpenExternallyOf == [u \in KnownUrls |-> shouldOpenExternally(u)]

\* (focused, visible, minimized) as the window manager can set them:
\* a focused window is visible and not minimized
UserWindowStates ==
  { <<TRUE, TRUE, FALSE>>, <<FALSE, TRUE, FALSE>>, <<FALSE, TRUE, TRUE>>,
    <<FALSE, FALSE, TRUE>>, <<FALSE, FALSE, FALSE>> }

\* schemes whose navigation the rendering engine carries out in the window
NavigableProtocols == {"http:", "https:", "about:", "data:", "file:"}

(***************************************************************************)
(* State                                                                   *)
(***************************************************************************)
VARIABLES
  platform,                \* process.platform
  lock,                    \* the single-instance lock is held (by the Primary)
  app,                     \* the Primary: "off", "starting" (not ready), "ready"
  quitting,                \* app.quit() has been called in the Primary
  pendingSI,               \* second-instance signals on their way to the Primary
  win,                     \* let win: 0 is null, else a window id
  isWindowCreationStarted,
  wins,                    \* the live BrowserWindow objects, by id
  filterOn,                \* session.defaultSession has the onBeforeRequest listener
  store,                   \* restore-state.json
  notifs,                  \* notifications shown that have their click listener
  pc,                      \* "idle", or the statement of the running callback
  startUrl,                \* createWindow's local startUrl
  event,                   \* the callback that runs or ran last, and its URL
  calls,                   \* the calls it has made, in order
  probe, verdict           \* a URL string and the domain policy's answers for it

vars == << platform, lock, app, quitting, pendingSI, win, isWindowCreationStarted,
           wins, filterOn, store, notifs, pc, startUrl, event, calls,
           probe, verdict >>

procVars == << platform, lock, app, quitting, pendingSI >>
jsVars == << win, isWindowCreationStarted, filterOn, notifs, startUrl >>
policyVars == << probe, verdict >>

Event(h, u) == [handler |-> h, url |-> u]

(***************************************************************************)
(* Restore-state store                                                     *)
(***************************************************************************)
Absent == [kind |-> "absent", restoreUrl |-> "", ts |-> 0]
Garbage == [kind |-> "garbage", restoreUrl |-> "", ts |-> 0]  \* JSON.parse throws
NoUrl == [kind |-> "noUrl", restoreUrl |-> "", ts |-> 0]      \* restoreUrl is no string
Rec(url, t) == [kind |-> "record", restoreUrl |-> url, ts |-> t]

WriteOutcomes == {"ok", "throw", "truncated"}  \* writeFileSync
IoOutcomes == {"ok", "throw"}                   \* readFileSync, unlinkSync

writeRestoreUrlAppend(url, t, io) ==
  CASE io = "ok" -> IF store.kind = "absent" THEN Rec(url, t) ELSE Garbage
    [] io = "truncated" -> Garbage
    [] OTHER -> store

\* the file after writeRestoreUrl(url) at time t; io is what writeFileSync did
writeRestoreUrl(url, t, io) ==
  CASE io = "ok" -> Rec(url, t)
    [] io = "truncated" -> Garbage
    [] OTHER -> store

readRestoreUrlNoCatch(io) ==
  IF io # "ok" \/ store.kind \in {"absent", "garbage"} THEN JsThrow
  ELSE IF store.kind = "record" THEN JsStr(store.restoreUrl)
  ELSE JsNull

\* what readRestoreUrl() returns; io is what readFileSync did
readRestoreUrl(io) ==
  IF io # "ok" \/ store.kind \in {"absent", "garbage"} THEN JsNull
  ELSE IF store.kind = "record" THEN JsStr(store.restoreUrl)
  ELSE JsNull

\* the file after clearRestoreUrl(); io is what unlinkSync did
clearRestoreUrl(io) == IF io = "ok" THEN Absent ELSE store

(***************************************************************************)
(* Windows                                                                 *)
(***************************************************************************)
NewBrowserWindow(owner) ==
  \* fresh: no load of the window has finished or failed yet
  [ owner |-> owner, focused |-> TRUE, visible |-> TRUE, minimized |-> FALSE,
    url |-> "", target |-> "", load |-> "idle", fresh |-> TRUE,
    onceFinish |-> FALSE, onceFail |-> FALSE,
    openHandler |-> FALSE, navHandler |-> FALSE, redirHandler |-> FALSE,
    closedHandler |-> FALSE ]

Live == DOMAIN wins
PrimaryWindows == {i \in Live : wins[i].owner = "primary"}
\* win && !win.isDestroyed()
WinLive == win # 0 /\ win \in Live
FreeId == CHOOSE i \in WinIds \ Live : \A j \in WinIds \ Live : i <= j
WithWindow(i, w) == [j \in Live \cup {i} |-> IF j = i THEN w ELSE wins[j]]
Without(i) == [j \in Live \ {i} |-> wins[j]]

safeGetCurrentUrlDefault == IF ~WinLive THEN JsNull ELSE JsStr(DEFAULT_URL)

safeGetCurrentUrlUnchecked ==
  IF ~WinLive THEN JsNull
  ELSE LET url == wins[win].url
       IN  IF url = "" THEN JsNull ELSE JsStr(url)

safeGetCurrentUrl ==
  IF ~WinLive THEN JsNull
  ELSE LET url == wins[win].url
       IN  IF url = "" \/ ~isAllowedOf[url] THEN JsNull ELSE JsStr(url)

(***************************************************************************)
(* Navigation interceptors: what each callback does for a URL              *)
(***************************************************************************)
onBeforeRequestHttpsOnly(url) ==
  LET u == newURL(url)
  IN  IF ~u.ok THEN << Call("cb", "cancel:true") >>
      ELSE IF u.protocol # "https:" THEN << Call("cb", "cancel:false") >>
      ELSE IF ~isAllowed(url)
      THEN << Call("console.log", url), Call("cb", "cancel:true") >>
      ELSE << Call("cb", "cancel:false") >>

onBeforeRequestFailOpen(url) ==
  LET u == newURL(url)
  IN  IF ~u.ok THEN << Call("cb", "cancel:false") >>
      ELSE IF u.protocol # "http:" /\ u.protocol # "https:"
      THEN << Call("cb", "cancel:false") >>
      ELSE IF ~isAllowed(url)
      THEN << Call("console.log", url), Call("cb", "cancel:true") >>
      ELSE << Call("cb", "cancel:false") >>

onBeforeRequest(url) ==
  LET u == newURL(url)
  IN  IF ~u.ok THEN << Call("cb", "cancel:true") >>
      ELSE IF u.protocol # "http:" /\ u.protocol # "https:"
      THEN << Call("cb", "cancel:false") >>
      ELSE IF ~isAllowed(url)
      THEN << Call("console.log", url), Call("cb", "cancel:true") >>
      ELSE << Call("cb", "cancel:false") >>

windowOpenHandlerDisallowedOnly(url) ==
  (IF shouldOpenExternally(url) THEN << Call("shell.openExternal", url) >> ELSE << >>)
  \o << Call("return", "action:deny") >>

windowOpenHandler(url) ==
  LET u == newURL(url)
  IN  (IF u.ok /\ (u.protocol = "http:" \/ u.protocol = "https:")
       THEN << Call("shell.openExternal", url) >> ELSE << >>)
      \o << Call("return", "action:deny") >>

willNavigate(url) ==
  IF shouldOpenExternally(url)
  THEN << Call("e.preventDefault", ""), Call("shell.openExternal", url) >>
  ELSE << >>

willRedirectNoCancel(url) ==
  IF shouldOpenExternally(url) THEN << Call("shell.openExternal", url) >> ELSE << >>

willRedirect(url) ==
  IF shouldOpenExternally(url)
  THEN << Call("e.preventDefault", ""), Call("shell.openExternal", url) >>
  ELSE << >>

\* the callbacks' answers, evaluated once for the URLs that occur
onBeforeRequestOf == [u \in EventUrls |-> onBeforeRequest(u)]
windowOpenHandlerOf == [u \in EventUrls |-> windowOpenHandler(u)]
willNavigateOf == [u \in EventUrls |-> willNavigate(u)]
willRedirectOf == [u \in EventUrls |-> willRedirect(u)]

(***************************************************************************)
(* Initial state: nothing runs; the restore-state file is whatever an      *)
(* earlier run, or anything else, left on disk                             *)
(***************************************************************************)
NoVerdict == [done |-> FALSE, isAllowed |-> FALSE, shouldOpenExternally |-> FALSE]

InitFiles == {Absent, Garbage, NoUrl} \cup {Rec(u, 0) : u \in FileUrls}

\* no process runs
Quiescent ==
  /\ lock = FALSE
  /\ app = "off"
  /\ quitting = FALSE
  /\ pendingSI = 0
  /\ win = 0
  /\ isWindowCreationStarted = FALSE
  /\ wins = << >>
  /\ filterOn = FALSE
  /\ notifs = 0
  /\ pc = "idle"
  /\ startUrl = ""
  /\ event = Event("none", "")
  /\ calls = << >>

Init ==
  /\ Quiescent
  /\ platform \in {"linux", "darwin"}
  /\ store \in InitFiles
  /\ probe = ""
  /\ verdict = NoVerdict

(***************************************************************************)
(* Single instance                                                         *)
(***************************************************************************)
\* gotLock: the process becomes the Primary and registers its listeners
PrimaryMain ==
  /\ lock' = TRUE
  /\ app' = "starting"
  /\ event' = Event("launch-primary", "")
  /\ calls' = << >>
  /\ UNCHANGED << platform, quitting, pendingSI, wins, store, pc >>
  /\ UNCHANGED jsVars

SecondaryMainCreatesWindow ==
  /\ WinIds \ Live # {}
  /\ pendingSI' = pendingSI + 1
  /\ wins' = WithWindow(FreeId, NewBrowserWindow("secondary"))
  /\ event' = Event("launch-secondary", "")
  /\ calls' = << Call("app.exit", "0") >>
  /\ UNCHANGED << platform, lock, app, quitting, store, pc >>
  /\ UNCHANGED jsVars

\* !gotLock: the process exits; requesting the lock has signalled the Primary
SecondaryMain ==
  /\ pendingSI' = pendingSI + 1
  /\ event' = Event("launch-secondary", "")
  /\ calls' = << Call("app.exit", "0") >>
  /\ UNCHANGED << platform, lock, app, quitting, wins, store, pc >>
  /\ UNCHANGED jsVars

\* a process starts and calls app.requestSingleInstanceLock()
Launch ==
  /\ pc = "idle"
  /\ lock => pendingSI < MaxPendingSI
  /\ IF ~lock THEN PrimaryMain ELSE SecondaryMain
  /\ UNCHANGED policyVars

(***************************************************************************)
(* Window operations                                                       *)
(***************************************************************************)
restore(w) == [w EXCEPT !.minimized = FALSE, !.visible = TRUE]
show(w) == [w EXCEPT !.visible = TRUE]
\* win.focus(): the window manager grants the raise or denies it
focus(w, granted) == [w EXCEPT !.focused = granted]

IsForegroundNoFocus(w) == w.visible /\ ~w.minimized

\* win.isFocused() && win.isVisible() && !win.isMinimized()
IsForeground(w) == w.focused /\ w.visible /\ ~w.minimized

(***************************************************************************)
(* second-instance                                                         *)
(***************************************************************************)
SecondInstanceUnguarded ==
  /\ pc = "idle"
  /\ app \in {"starting", "ready"}
  /\ pendingSI > 0
  /\ pendingSI' = pendingSI - 1
  /\ event' = Event("second-instance", IF WinLive THEN wins[win].url ELSE "")
  /\ IF ~WinLive
     THEN /\ calls' = << Call("throw", "TypeError") >>
          /\ UNCHANGED << wins, store, notifs, pc >>
     ELSE IF IsForeground(wins[win])
     THEN LET url == safeGetCurrentUrl
          IN  /\ IF Truthy(url)
                 THEN \E t \in Times, io \in WriteOutcomes :
                        /\ store' = writeRestoreUrl(url.str, t, io)
                        /\ calls' = << Call("writeRestoreUrl", url.str),
                                       Call("fs.writeFileSync", io) >>
                 ELSE /\ store' = store
                      /\ calls' = << >>
              /\ pc' = "app.quit"
              /\ UNCHANGED << wins, notifs >>
     ELSE \E granted \in BOOLEAN,
             supported \in (IF notifs < MaxNotifs THEN BOOLEAN ELSE {FALSE}) :
            LET w0 == wins[win]
                w1 == IF w0.minimized THEN restore(w0) ELSE w0
                w2 == IF ~w1.visible THEN show(w1) ELSE w1
                w3 == focus(w2, granted)
            IN  /\ wins' = WithWindow(win, w3)
                /\ notifs' = IF supported THEN notifs + 1 ELSE notifs
                /\ calls' =
                     (IF w0.minimized THEN << Call("win.restore", "") >> ELSE << >>)
                     \o (IF ~w1.visible THEN << Call("win.show", "") >> ELSE << >>)
                     \o << Call("win.focus", "") >>
                     \o (IF supported THEN << Call("n.show", "") >> ELSE << >>)
                /\ UNCHANGED << store, pc >>
  /\ UNCHANGED << platform, lock, app, quitting, win, isWindowCreationStarted,
                  filterOn, startUrl >>
  /\ UNCHANGED policyVars

SecondInstance ==
  /\ pc = "idle"
  /\ app \in {"starting", "ready"}
  /\ pendingSI > 0
  /\ pendingSI' = pendingSI - 1
  /\ event' = Event("second-instance", IF WinLive THEN wins[win].url ELSE "")
  /\ IF ~WinLive
     THEN /\ calls' = << >>
          /\ UNCHANGED << wins, store, notifs, pc >>
     ELSE IF IsForeground(wins[win])
     THEN LET url == safeGetCurrentUrl
          IN  /\ IF Truthy(url)
                 THEN \E t \in Times, io \in WriteOutcomes :
                        /\ store' = writeRestoreUrl(url.str, t, io)
                        /\ calls' = << Call("writeRestoreUrl", url.str),
                                       Call("fs.writeFileSync", io) >>
                 ELSE /\ store' = store
                      /\ calls' = << >>
              /\ pc' = "app.quit"
              /\ UNCHANGED << wins, notifs >>
     ELSE \E granted \in BOOLEAN,
             supported \in (IF notifs < MaxNotifs THEN BOOLEAN ELSE {FALSE}) :
            LET w0 == wins[win]
                w1 == IF w0.minimized THEN restore(w0) ELSE w0
                w2 == IF ~w1.visible THEN show(w1) ELSE w1
                w3 == focus(w2, granted)
            IN  /\ wins' = WithWindow(win, w3)
                /\ notifs' = IF supported THEN notifs + 1 ELSE notifs
                /\ calls' =
                     (IF w0.minimized THEN << Call("win.restore", "") >> ELSE << >>)
                     \o (IF ~w1.visible THEN << Call("win.show", "") >> ELSE << >>)
                     \o << Call("win.focus", "") >>
                     \o (IF supported THEN << Call("n.show", "") >> ELSE << >>)
                /\ UNCHANGED << store, pc >>
  /\ UNCHANGED << platform, lock, app, quitting, win, isWindowCreationStarted,
                  filterOn, startUrl >>
  /\ UNCHANGED policyVars

AppQuitMissing ==
  /\ pc = "app.quit"
  /\ pc' = "idle"
  /\ UNCHANGED << platform, lock, app, quitting, pendingSI, wins, store, event, calls >>
  /\ UNCHANGED jsVars
  /\ UNCHANGED policyVars

\* the second-instance handler's app.quit(), after the capture
AppQuit ==
  /\ pc = "app.quit"
  /\ quitting' = TRUE
  /\ pc' = "idle"
  /\ calls' = Append(calls, Call("app.quit", ""))
  /\ UNCHANGED << platform, lock, app, pendingSI, wins, store, event >>
  /\ UNCHANGED jsVars
  /\ UNCHANGED policyVars

\* the notification's click listener
NotificationClick ==
  /\ pc = "idle"
  /\ app # "off"
  /\ notifs > 0
  /\ notifs' = notifs - 1
  /\ event' = Event("notification-click", "")
  /\ IF ~WinLive
     THEN /\ calls' = << Call("throw", "TypeError") >>
          /\ UNCHANGED wins
     ELSE \E granted \in BOOLEAN :
            LET w0 == wins[win]
                w1 == IF w0.minimized THEN restore(w0) ELSE w0
                w3 == focus(show(w1), granted)
            IN  /\ wins' = WithWindow(win, w3)
                /\ calls' =
                     (IF w0.minimized THEN << Call("win.restore", "") >> ELSE << >>)
                     \o << Call("win.show", ""), Call("win.focus", "") >>
  /\ UNCHANGED << platform, lock, app, quitting, pendingSI, win,
                  isWindowCreationStarted, filterOn, store, pc, startUrl >>
  /\ UNCHANGED policyVars

(***************************************************************************)
(* createWindow.  Its statements run one after another with no other       *)
(* callback in between (pc # "idle" disables every other action); the      *)
(* menu and the context menu are left out.                                 *)
(***************************************************************************)
CreateWindowStepsLoadFirst ==
  << "readRestoreUrl", "loadURL", "onBeforeRequest", "setWindowOpenHandler",
     "on will-navigate", "on will-redirect", "on closed" >>

\* the statements of createWindow after new BrowserWindow, in program order
CreateWindowSteps ==
  << "readRestoreUrl", "onBeforeRequest", "setWindowOpenHandler",
     "on will-navigate", "on will-redirect", "loadURL", "on closed" >>

StepAfter(step) ==
  LET i == CHOOSE j \in 1..Len(CreateWindowSteps) : CreateWindowSteps[j] = step
  IN  IF i = Len(CreateWindowSteps) THEN "idle" ELSE CreateWindowSteps[i + 1]

\* the guard, and new BrowserWindow
createWindow(caller) ==
  /\ event' = Event(caller, "")
  /\ IF isWindowCreationStarted \/ WinLive
     THEN /\ IF WinLive
             THEN \E granted \in BOOLEAN :
                    /\ wins' = WithWindow(win, focus(wins[win], granted))
                    /\ calls' = << Call("win.focus", "") >>
             ELSE /\ calls' = << >>
                  /\ UNCHANGED wins
          /\ UNCHANGED << win, isWindowCreationStarted, pc >>
     ELSE /\ WinIds \ Live # {}
          /\ isWindowCreationStarted' = TRUE
          /\ win' = FreeId
          /\ wins' = WithWindow(FreeId, NewBrowserWindow("primary"))
          /\ calls' = << Call("new BrowserWindow", "") >>
          /\ pc' = CreateWindowSteps[1]
  /\ UNCHANGED << platform, lock, quitting, pendingSI, filterOn, store, notifs,
                  startUrl >>
  /\ UNCHANGED policyVars

ClearHooksFinishOnly(url) == [finish |-> url # DEFAULT_URL, fail |-> FALSE]

ClearHooksAlways(url) == [finish |-> TRUE, fail |-> TRUE]

\* the one-shot did-finish-load / did-fail-load listeners that clear the record
ClearHooks(url) == [finish |-> url # DEFAULT_URL, fail |-> url # DEFAULT_URL]

startUrlOfUnchecked(restoreUrl) ==
  IF Truthy(restoreUrl) THEN restoreUrl.str ELSE DEFAULT_URL

\* restoreUrl && isAllowed(restoreUrl) ? restoreUrl : 'https://grok.com/'
startUrlOf(restoreUrl) ==
  IF Truthy(restoreUrl) /\ isAllowed(restoreUrl.str)
  THEN restoreUrl.str ELSE DEFAULT_URL

\* const restoreUrl = readRestoreUrl(); const startUrl = ...; the two once()
CW_StartUrl ==
  /\ pc = "readRestoreUrl"
  /\ \E io \in IoOutcomes :
       LET restoreUrl == readRestoreUrl(io)
           url == startUrlOf(restoreUrl)
           hooks == ClearHooks(url)
       IN  IF restoreUrl = JsThrow
           THEN \* an exception out of readRestoreUrl ends createWindow here
                /\ calls' = calls \o << Call("fs.readFileSync", io),
                                        Call("throw", "Error") >>
                /\ pc' = "idle"
                /\ UNCHANGED << startUrl, wins >>
           ELSE /\ startUrl' = url
                /\ wins' = WithWindow(win,
                              [wins[win] EXCEPT !.onceFinish = hooks.finish,
                                                !.onceFail = hooks.fail])
                /\ calls' = calls \o << Call("fs.readFileSync", io) >>
                            \o (IF hooks.finish
                                THEN << Call("once did-finish-load", "clearRestoreUrl") >>
                                ELSE << >>)
                            \o (IF hooks.fail
                                THEN << Call("once did-fail-load", "clearRestoreUrl") >>
                                ELSE << >>)
                /\ pc' = StepAfter("readRestoreUrl")
  /\ UNCHANGED << win, isWindowCreationStarted, filterOn, notifs >>
  /\ UNCHANGED << store, event >>
  /\ UNCHANGED procVars
  /\ UNCHANGED policyVars

\* session.defaultSession.webRequest.onBeforeRequest(filter, ...)
CW_Filter ==
  /\ pc = "onBeforeRequest"
  /\ filterOn' = TRUE
  /\ calls' = Append(calls, Call("webRequest.onBeforeRequest", ""))
  /\ pc' = StepAfter("onBeforeRequest")
  /\ UNCHANGED << win, isWindowCreationStarted, notifs, startUrl >>
  /\ UNCHANGED << wins, store, event >>
  /\ UNCHANGED procVars
  /\ UNCHANGED policyVars

\* setWindowOpenHandler, on('will-navigate'), on('will-redirect'), on('closed')
InstallHandler(step, w) ==
  CASE step = "setWindowOpenHandler" -> [w EXCEPT !.openHandler = TRUE]
    [] step = "on will-navigate" -> [w EXCEPT !.navHandler = TRUE]
    [] step = "on will-redirect" -> [w EXCEPT !.redirHandler = TRUE]
    [] step = "on closed" -> [w EXCEPT !.closedHandler = TRUE]

CW_Install(step) ==
  /\ pc = step
  /\ wins' = WithWindow(win, InstallHandler(step, wins[win]))
  /\ calls' = Append(calls, Call(step, ""))
  /\ pc' = StepAfter(step)
  /\ UNCHANGED << store, event >>
  /\ UNCHANGED jsVars
  /\ UNCHANGED procVars
  /\ UNCHANGED policyVars

CW_OpenHandler == CW_Install("setWindowOpenHandler")
CW_WillNavigate == CW_Install("on will-navigate")
CW_WillRedirect == CW_Install("on will-redirect")
CW_OnClosed == CW_Install("on closed")

\* win.loadURL(startUrl)
CW_LoadURL ==
  /\ pc = "loadURL"
  /\ wins' = WithWindow(win, [wins[win] EXCEPT !.target = startUrl,
                                               !.load = "loading"])
  /\ calls' = Append(calls, Call("win.loadURL", startUrl))
  /\ pc' = StepAfter("loadURL")
  /\ UNCHANGED << store, event >>
  /\ UNCHANGED jsVars
  /\ UNCHANGED procVars
  /\ UNCHANGED policyVars

\* app.whenReady().then(createWindow)
Ready ==
  /\ pc = "idle"
  /\ app = "starting"
  /\ app' = "ready"
  /\ createWindow("whenReady")

ActivateUnguarded ==
  /\ pc = "idle"
  /\ app = "ready"
  /\ platform = "darwin"
  /\ ~quitting
  /\ WinIds \ Live # {}
  /\ event' = Event("activate", "")
  /\ win' = FreeId
  /\ wins' = WithWindow(FreeId, NewBrowserWindow("primary"))
  /\ calls' = << Call("new BrowserWindow", "") >>
  /\ pc' = CreateWindowSteps[1]
  /\ UNCHANGED << platform, lock, app, quitting, pendingSI, filterOn, store, notifs,
                  startUrl, isWindowCreationStarted >>
  /\ UNCHANGED policyVars

\* app.on('activate'): emitted on macOS
Activate ==
  /\ pc = "idle"
  /\ app = "ready"
  /\ platform = "darwin"
  /\ ~quitting
  /\ UNCHANGED app
  /\ IF Cardinality(PrimaryWindows) = 0
     THEN createWindow("activate")
     ELSE /\ event' = Event("activate", "")
          /\ calls' = << >>
          /\ UNCHANGED << platform, lock, quitting, pendingSI, wins, store, pc >>
          /\ UNCHANGED jsVars
          /\ UNCHANGED policyVars

(***************************************************************************)
(* Events of the window, the page and the network                          *)
(***************************************************************************)
Loaded == {i \in PrimaryWindows : wins[i].load # "idle"}

\* the user or the window manager focuses, hides, minimizes the window
SetWindowState ==
  /\ pc = "idle"
  /\ \E i \in Live, st \in UserWindowStates :
       /\ st # << wins[i].focused, wins[i].visible, wins[i].minimized >>
       /\ wins' = WithWindow(i, [wins[i] EXCEPT !.focused = st[1],
                                                !.visible = st[2],
                                                !.minimized = st[3]])
  /\ event' = Event("window-manager", "")
  /\ calls' = << >>
  /\ UNCHANGED << store, pc >>
  /\ UNCHANGED jsVars
  /\ UNCHANGED procVars
  /\ UNCHANGED policyVars

\* the page (or the load itself) issues a request for url
Request ==
  /\ pc = "idle"
  /\ Loaded # {}
  /\ \E url \in EventUrls :
       /\ event' = Event(IF filterOn THEN "onBeforeRequest" ELSE "request-unfiltered",
                         url)
       /\ calls' = IF filterOn THEN onBeforeRequestOf[url] ELSE << >>
  /\ UNCHANGED << wins, store, pc >>
  /\ UNCHANGED jsVars
  /\ UNCHANGED procVars
  /\ UNCHANGED policyVars

\* the page asks for a new window (window.open, target=_blank)
WindowOpen ==
  /\ pc = "idle"
  /\ \E i \in Loaded, url \in EventUrls :
       /\ event' = Event(IF wins[i].openHandler THEN "window-open"
                         ELSE "window-open-unhandled", url)
       /\ calls' = IF wins[i].openHandler THEN windowOpenHandlerOf[url] ELSE << >>
  /\ UNCHANGED << wins, store, pc >>
  /\ UNCHANGED jsVars
  /\ UNCHANGED procVars
  /\ UNCHANGED policyVars

\* a navigation the callback did not cancel is carried out when the URL is one
\* the engine can navigate to
Proceeds(cs, url) ==
  /\ "e.preventDefault" \notin Ops(cs)
  /\ newURLOf[url].ok
  /\ newURLOf[url].protocol \in NavigableProtocols

\* the page or the user starts a top-level navigation to url
Navigate ==
  /\ pc = "idle"
  /\ \E i \in Loaded, url \in EventUrls :
       LET cs == IF wins[i].navHandler THEN willNavigateOf[url] ELSE << >>
       IN  /\ event' = Event("will-navigate", url)
           /\ calls' = cs
           /\ wins' = IF Proceeds(cs, url)
                      THEN WithWindow(i, [wins[i] EXCEPT !.target = url,
                                                         !.load = "loading"])
                      ELSE wins
  /\ UNCHANGED << store, pc >>
  /\ UNCHANGED jsVars
  /\ UNCHANGED procVars
  /\ UNCHANGED policyVars

\* the server redirects the navigation under way to url
Redirect ==
  /\ pc = "idle"
  /\ \E i \in Loaded, url \in EventUrls :
       LET cs == IF wins[i].redirHandler THEN willRedirectOf[url] ELSE << >>
       IN  /\ wins[i].load = "loading"
           /\ event' = Event("will-redirect", url)
           /\ calls' = cs
           /\ wins' = IF Proceeds(cs, url)
                      THEN WithWindow(i, [wins[i] EXCEPT !.target = url])
                      ELSE wins
  /\ UNCHANGED << store, pc >>
  /\ UNCHANGED jsVars
  /\ UNCHANGED procVars
  /\ UNCHANGED policyVars

\* did-finish-load: the target is now the window's URL; the once() listener runs
DidFinishLoad ==
  /\ pc = "idle"
  /\ \E i \in Live :
       /\ wins[i].load = "loading"
       /\ \E io \in (IF wins[i].onceFinish THEN IoOutcomes ELSE {"ok"}) :
            /\ store' = IF wins[i].onceFinish THEN clearRestoreUrl(io) ELSE store
            /\ calls' = IF wins[i].onceFinish
                        THEN << Call("clearRestoreUrl", ""), Call("fs.unlinkSync", io) >>
                        ELSE << >>
       /\ event' = Event("did-finish-load", wins[i].target)
       /\ wins' = WithWindow(i, [wins[i] EXCEPT !.url = wins[i].target,
                                                !.target = "",
                                                !.load = "done",
                                                !.fresh = FALSE,
                                                !.onceFinish = FALSE])
  /\ UNCHANGED pc
  /\ UNCHANGED jsVars
  /\ UNCHANGED procVars
  /\ UNCHANGED policyVars

\* did-fail-load: the window keeps its URL; the once() listener runs
DidFailLoad ==
  /\ pc = "idle"
  /\ \E i \in Live :
       /\ wins[i].load = "loading"
       /\ \E io \in (IF wins[i].onceFail THEN IoOutcomes ELSE {"ok"}) :
            /\ store' = IF wins[i].onceFail THEN clearRestoreUrl(io) ELSE store
            /\ calls' = IF wins[i].onceFail
                        THEN << Call("clearRestoreUrl", ""), Call("fs.unlinkSync", io) >>
                        ELSE << >>
       /\ event' = Event("did-fail-load", wins[i].target)
       /\ wins' = WithWindow(i, [wins[i] EXCEPT !.target = "",
                                                !.load = "done",
                                                !.fresh = FALSE,
                                                !.onceFail = FALSE])
  /\ UNCHANGED pc
  /\ UNCHANGED jsVars
  /\ UNCHANGED procVars
  /\ UNCHANGED policyVars

\* the window is closed (by the user, or by the quit under way): 'closed', then
\* 'window-all-closed' when it was the last one and no quit is under way
CloseWindow ==
  /\ pc = "idle"
  /\ \E i \in Live :
       LET w == wins[i]
           mine == w.owner = "primary"
           last == PrimaryWindows \ {i} = {}
           allClosed == mine /\ last /\ ~quitting
       IN  /\ wins' = Without(i)
           /\ IF mine /\ w.closedHandler
              THEN win' = 0 /\ isWindowCreationStarted' = FALSE
              ELSE UNCHANGED << win, isWindowCreationStarted >>
           /\ quitting' = (quitting \/ (allClosed /\ platform # "darwin"))
           /\ calls' = IF allClosed /\ platform # "darwin"
                       THEN << Call("app.quit", "") >> ELSE << >>
  /\ event' = Event("closed", "")
  /\ UNCHANGED << platform, lock, app, pendingSI, filterOn, store, notifs,
                  pc, startUrl >>
  /\ UNCHANGED policyVars

\* the quit completes: the Primary's process ends and the lock is released
Exit ==
  /\ pc = "idle"
  /\ app # "off"
  /\ quitting
  /\ PrimaryWindows = {}
  /\ lock' = FALSE
  /\ app' = "off"
  /\ quitting' = FALSE
  /\ pendingSI' = 0
  /\ win' = 0
  /\ isWindowCreationStarted' = FALSE
  /\ filterOn' = FALSE
  /\ notifs' = 0
  /\ startUrl' = ""
  /\ event' = Event("exit", "")
  /\ calls' = << >>
  /\ UNCHANGED << platform, wins, store, pc >>
  /\ UNCHANGED policyVars

Next ==
  \/ Launch
  \/ Ready
  \/ Activate
  \/ CW_StartUrl
  \/ CW_Filter
  \/ CW_OpenHandler
  \/ CW_WillNavigate
  \/ CW_WillRedirect
  \/ CW_LoadURL
  \/ CW_OnClosed
  \/ SecondInstance
  \/ AppQuit
  \/ NotificationClick
  \/ SetWindowState
  \/ Request
  \/ WindowOpen
  \/ Navigate
  \/ Redirect
  \/ DidFinishLoad
  \/ DidFailLoad
  \/ CloseWindow
  \/ Exit

Spec == Init /\ [][Next]_vars

(***************************************************************************)
(* The life cycle on its own, with the progress Electron gives: a callback  *)
(* that has started runs on, and a quit under way closes the windows and    *)
(* ends the process whatever else keeps arriving.  Request and WindowOpen,  *)
(* which change nothing but the record of the last callback, are left out.  *)
(***************************************************************************)
NextLifecycle ==
  \/ Launch
  \/ Ready
  \/ Activate
  \/ CW_StartUrl
  \/ CW_Filter
  \/ CW_OpenHandler
  \/ CW_WillNavigate
  \/ CW_WillRedirect
  \/ CW_LoadURL
  \/ CW_OnClosed
  \/ SecondInstance
  \/ AppQuit
  \/ NotificationClick
  \/ SetWindowState
  \/ Navigate
  \/ Redirect
  \/ DidFinishLoad
  \/ DidFailLoad
  \/ CloseWindow
  \/ Exit

SpecLifecycle ==
  /\ Init
  /\ [][NextLifecycle]_vars
  /\ WF_vars(AppQuit)
  /\ SF_vars(quitting /\ CloseWindow)
  /\ SF_vars(Exit)

(***************************************************************************)
(* The domain policy on its own: a URL string is drawn, the policy's       *)
(* functions are applied to it                                             *)
(***************************************************************************)
TestSchemes == {"https", "http", "HTTPS", "ftp", "mailto", "file"}
TestSeparators == {"://", ":"}
TestHosts ==
  { "grok.com", "GROK.com", "www.grok.com", "notgrok.com", "notgrok.com.evil.net",
    "grok.com.", ".grok.com", "x.ai", "accounts.x.ai", "ai", "xai.com", "evil.net",
    "cloudflare.com", "cloudflareinsights.com", "grokipedia.com",
    "grokusercontent.com", "cdn.GrokUserContent.com" }
TestAuthorities ==
  UNION { { h, "user@" \o h, h \o ":8443", "grok.com@" \o h } : h \in TestHosts }
TestTails == {"", "/", "/?next=https://grok.com/", "#.grok.com"}
Malformed ==
  { "", "not a url", "grok.com", "//grok.com/", "://grok.com/", "https://",
    "https://grok.com:port/", "https://gr ok.com/", "1https://grok.com/" }

TestUrls ==
  { s \o sep \o a \o t :
      s \in TestSchemes, sep \in TestSeparators, a \in TestAuthorities, t \in TestTails }
  \cup Malformed

InitPolicy ==
  /\ Quiescent
  /\ platform = "linux"
  /\ store = Absent
  /\ probe \in TestUrls
  /\ verdict = NoVerdict

Classify ==
  /\ ~verdict.done
  /\ verdict' = [done |-> TRUE,
                 isAllowed |-> isAllowed(probe),
                 shouldOpenExternally |-> shouldOpenExternally(probe)]
  /\ UNCHANGED << probe, store, wins, pc, event, calls >>
  /\ UNCHANGED jsVars
  /\ UNCHANGED procVars

NextPolicy == Classify

SpecPolicy == InitPolicy /\ [][NextPolicy]_vars

(***************************************************************************)
(* Properties                                                              *)
(***************************************************************************)
IsHttpScheme(u) == newURLOf[u].ok /\ newURLOf[u].protocol \in {"http:", "https:"}
IsOtherScheme(u) == newURLOf[u].ok /\ newURLOf[u].protocol \notin {"http:", "https:"}

\* C1: a request that reaches the filter with an http or https URL proceeds
\* exactly when isAllowed accepts the URL, and is otherwise cancelled and logged
\* once; a request with another scheme proceeds; no request runs unfiltered.
C1_RequestFilter ==
  /\ event.handler # "request-unfiltered"
  /\ event.handler = "onBeforeRequest" =>
       LET u == event.url
       IN  /\ IsHttpScheme(u) /\ isAllowedOf[u] => calls = << Call("cb", "cancel:false") >>
           /\ IsHttpScheme(u) /\ ~isAllowedOf[u] =>
                /\ Count(calls, Call("cb", "cancel:true")) = 1
                /\ CountOp(calls, "cb") = 1
                /\ Count(calls, Call("console.log", u)) = 1
                /\ CountOp(calls, "console.log") = 1
           /\ IsOtherScheme(u) => calls = << Call("cb", "cancel:false") >>

C1_Witness ==
  /\ event = Event("onBeforeRequest", EVIL_URL)
  /\ calls = << Call("console.log", EVIL_URL), Call("cb", "cancel:true") >>

\* C2: a window that has started loading has the request filter and the
\* new-window, will-navigate and will-redirect handlers installed.
C2_InstalledBeforeLoad ==
  \A i \in Live :
    wins[i].load # "idle" =>
      /\ filterOn
      /\ wins[i].openHandler
      /\ wins[i].navHandler
      /\ wins[i].redirHandler

C2_Witness ==
  /\ pc = "on closed"
  /\ WinLive
  /\ wins[win].load = "loading"
  /\ filterOn

\* the window that win refers to is focused, visible and not minimized
InFront == WinLive /\ wins[win].focused /\ wins[win].visible /\ ~wins[win].minimized

\* C3: a second-instance signal that finds the window in front with an allowed
\* current URL makes the handler call writeRestoreUrl with exactly that URL and
\* nothing else, before app.quit(); a write that succeeds leaves that URL in the
\* store, one that fails leaves no URL there that was not there; the next step
\* is app.quit().
C3_CaptureThenQuit ==
  [][ /\ (SecondInstance /\ InFront /\ wins[win].url # "" /\ isAllowedOf[wins[win].url]) =>
           LET u == wins[win].url
           IN  /\ \E io \in WriteOutcomes :
                    /\ calls' = << Call("writeRestoreUrl", u), Call("fs.writeFileSync", io) >>
                    /\ io = "ok" => store'.kind = "record" /\ store'.restoreUrl = u
                    /\ io # "ok" => store' \in {store, Garbage}
               /\ pc' = "app.quit"
               /\ quitting' = quitting
               /\ event'.url = u
      /\ pc = "app.quit" =>
           /\ quitting'
           /\ pc' = "idle"
           /\ store' = store
           /\ calls' = Append(calls, Call("app.quit", ""))
    ]_vars

C3_Witness ==
  /\ event = Event("second-instance", CHAT_URL)
  /\ calls = << Call("writeRestoreUrl", CHAT_URL), Call("fs.writeFileSync", "ok"),
                Call("app.quit", "") >>
  /\ store.restoreUrl = CHAT_URL
  /\ startUrl = DEFAULT_URL
  /\ quitting

\* C4: a second-instance signal that finds the window minimized, hidden or
\* unfocused restores it if minimized, shows it if hidden and calls focus; the
\* store is untouched, no quit is started, and win is the same live window.
C4_BringToFront ==
  [][ (SecondInstance /\ WinLive /\ ~InFront) =>
        /\ store' = store
        /\ quitting' = quitting
        /\ pc' = "idle"
        /\ lock' = lock /\ app' = app
        /\ win' = win /\ win \in DOMAIN wins'
        /\ wins'[win].visible /\ ~wins'[win].minimized
        /\ [wins'[win] EXCEPT !.focused = TRUE, !.visible = TRUE, !.minimized = FALSE]
             = [wins[win] EXCEPT !.focused = TRUE, !.visible = TRUE, !.minimized = FALSE]
        /\ wins[win].minimized => Call("win.restore", "") \in {calls'[k] : k \in 1..Len(calls')}
        /\ Count(calls', Call("win.focus", "")) = 1
        /\ Ops(calls') \subseteq {"win.restore", "win.show", "win.focus", "n.show"}
    ]_vars

C4_Witness ==
  /\ event.handler = "second-instance"
  /\ Ops(calls) = {"win.restore", "win.focus", "n.show"}
  /\ WinLive
  /\ ~quitting
  /\ store = Rec(EVIL_URL, 0)

\* C5: at most one window is live; a window is created only when none is live,
\* win is null and no creation is under way; a createWindow request made while a
\* window is live leaves the set of windows as it is.
C5_AtMostOneWindow ==
  [][ /\ Cardinality(DOMAIN wins') <= 1
      /\ DOMAIN wins' \ DOMAIN wins # {} =>
           /\ DOMAIN wins = {}
           /\ win = 0
           /\ ~isWindowCreationStarted
      /\ ((Ready \/ Activate) /\ DOMAIN wins # {}) => DOMAIN wins' = DOMAIN wins
    ]_vars

\* a window made on activate, after the first one was closed
C5_Witness ==
  /\ event.handler = "activate"
  /\ pc = "idle"
  /\ Cardinality(Live) = 1
  /\ WinLive
  /\ wins[win].load = "loading"

\* the first load event of a window whose startup URL was a restored one
FirstLoadEventOfRestore(i) ==
  /\ i \in Live
  /\ wins[i].fresh
  /\ wins[i].load = "loading"
  /\ startUrl # DEFAULT_URL
  /\ i \notin DOMAIN wins' \/ ~wins'[i].fresh

\* C6 as stated: when the load of a restored startup URL finishes or fails, the
\* record is gone from the store.
C6_ClearedAtLoadEnd ==
  [][ \A i \in WinIds :
        (FirstLoadEventOfRestore(i) /\ (DidFinishLoad \/ DidFailLoad)) =>
          store'.kind = "absent"
    ]_vars

\* C6 amended: when the load of a restored startup URL finishes or fails,
\* clearRestoreUrl runs: the record is gone if the unlink succeeds and the store
\* is as it was if the unlink fails; and a record comes into the store only by
\* the write of a second-instance hand-off.
C6_ClearedUnlessUnlinkFails ==
  [][ /\ \A i \in WinIds :
           (FirstLoadEventOfRestore(i) /\ (DidFinishLoad \/ DidFailLoad)) =>
             \E io \in IoOutcomes :
               /\ calls' = << Call("clearRestoreUrl", ""), Call("fs.unlinkSync", io) >>
               /\ io = "ok" => store'.kind = "absent"
               /\ io # "ok" => store' = store
      /\ (store' # store /\ store'.kind = "record") =>
           /\ event'.handler = "second-instance"
           /\ store'.ts \in Times
    ]_vars

C6_Witness ==
  /\ event = Event("did-fail-load", CHAT_URL)
  /\ calls = << Call("clearRestoreUrl", ""), Call("fs.unlinkSync", "ok") >>
  /\ startUrl = CHAT_URL
  /\ store = Absent

\* C7: a launch that finds the lock held only signals the Primary and exits: the
\* windows, the win reference, the interceptors, the store, the lock and the
\* Primary's state are as before; every window belongs to the Primary, and a
\* window exists only while the lock is held.
C7_SecondaryDoesNothing ==
  [][ /\ (Launch /\ lock) =>
           /\ pendingSI' = pendingSI + 1
           /\ calls' = << Call("app.exit", "0") >>
           /\ wins' = wins /\ win' = win /\ filterOn' = filterOn
           /\ isWindowCreationStarted' = isWindowCreationStarted
           /\ store' = store
           /\ lock' = lock /\ app' = app /\ quitting' = quitting /\ pc' = pc
      /\ \A i \in DOMAIN wins' : wins'[i].owner = "primary"
      /\ DOMAIN wins' # {} => lock'
    ]_vars

C7_Witness ==
  /\ event.handler = "launch-secondary"
  /\ pendingSI = 1
  /\ WinLive
  /\ store = Rec(CHAT_URL, 0)

\* C8: every new-window request runs the handler, which returns action deny and
\* makes no window; it calls shell.openExternal once, with the URL, when the URL
\* parses with scheme http or https (allowed or not), and not at all otherwise.
C8_NewWindowDenied ==
  [][ WindowOpen =>
        LET u == event'.url
        IN  /\ event'.handler = "window-open"
            /\ wins' = wins
            /\ Len(calls') >= 1
            /\ calls'[Len(calls')] = Call("return", "action:deny")
            /\ CountOp(calls', "return") = 1
            /\ IsHttpScheme(u) =>
                 calls' = << Call("shell.openExternal", u), Call("return", "action:deny") >>
            /\ ~IsHttpScheme(u) => calls' = << Call("return", "action:deny") >>
    ]_vars

C8_Witness ==
  /\ event = Event("window-open", CHAT_URL)
  /\ isAllowedOf[CHAT_URL]
  /\ calls = << Call("shell.openExternal", CHAT_URL), Call("return", "action:deny") >>
  /\ Cardinality(Live) = 1

\* the navigation of window i to u is carried out
CarriedOut(i, u) == i \in DOMAIN wins' /\ wins'[i].target = u /\ wins'[i].load = "loading"

\* C9: for a top-level navigation and for a redirect alike: when
\* shouldOpenExternally(URL) holds the callback cancels it and opens the URL
\* externally once, and the window is as it was; otherwise the callback does
\* nothing; the two callbacks answer every URL alike.
C9_NavigateAndRedirect ==
  [][ (Navigate \/ Redirect) =>
        LET u == event'.url
        IN  /\ event'.handler \in {"will-navigate", "will-redirect"}
            /\ shouldOpenExternallyOf[u] =>
                 /\ calls' = << Call("e.preventDefault", ""), Call("shell.openExternal", u) >>
                 /\ wins' = wins
            /\ ~shouldOpenExternallyOf[u] =>
                 /\ calls' = << >>
                 /\ newURLOf[u].ok /\ newURLOf[u].protocol \in NavigableProtocols =>
                      \E i \in Live : CarriedOut(i, u)
            /\ \A v \in EventUrls : willNavigateOf[v] = willRedirectOf[v]
    ]_vars

C9_Witness ==
  /\ event = Event("will-redirect", EVIL_URL)
  /\ calls = << Call("e.preventDefault", ""), Call("shell.openExternal", EVIL_URL) >>
  /\ WinLive
  /\ wins[win].target = CHAT_URL

AllowListEntries == {ALLOWED_HOSTS[i] : i \in 1..Len(ALLOWED_HOSTS)}

\* u parses, its scheme is https, and its lower-cased hostname is an allow-list
\* entry or some prefix followed by "." and an entry
InAllowList(u) ==
  LET p == newURL(u)
      h == toLowerCase(p.hostname)
  IN  /\ p.ok
      /\ p.protocol = "https:"
      /\ \E a \in AllowListEntries :
           \/ h = a
           \/ \E k \in 0..Len(h) : h = SubSeq(h, 1, k) \o "." \o a

\* C10: isAllowed(u) holds exactly when u parses, its scheme is https and its
\* lower-cased hostname is an allow-list entry or ends with "." and an entry;
\* an http URL is not allowed, nor is a host that has an entry as a suffix
\* without the dot or as labels that are not its suffix.
C10_IsAllowedIff ==
  verdict.done =>
    /\ verdict.isAllowed <=> InAllowList(probe)
    /\ newURL(probe).protocol = "http:" => ~verdict.isAllowed
    /\ newURL(probe).hostname \in {"notgrok.com", "notgrok.com.evil.net"} =>
         ~verdict.isAllowed

C10_Witness ==
  /\ verdict.done
  /\ verdict.isAllowed
  /\ newURL(probe).hostname = "cdn.grokusercontent.com"

\* C11: shouldOpenExternally(u) holds only when u parses with scheme http or
\* https and isAllowed(u) is false; it is false for every other scheme whatever
\* the host; for a URL that parses with scheme http or https exactly one of
\* isAllowed and shouldOpenExternally holds.
C11_ExternalOnlyHttpDisallowed ==
  verdict.done =>
    LET p == newURL(probe)
        http == p.ok /\ p.protocol \in {"http:", "https:"}
    IN  /\ verdict.shouldOpenExternally => http /\ ~verdict.isAllowed
        /\ (p.ok /\ ~http) => ~verdict.shouldOpenExternally
        /\ http => (verdict.isAllowed <=> ~verdict.shouldOpenExternally)

\* an http URL on a listed host is opened externally
C11_Witness ==
  /\ verdict.done
  /\ verdict.shouldOpenExternally
  /\ ~verdict.isAllowed
  /\ newURL(probe).protocol = "http:"
  /\ newURL(probe).hostname = "grok.com"

\* C12: createWindow reads the store without changing it; when the read gives
\* a restore URL that isAllowed accepts, that URL is the startup URL; in every
\* other case (no file, a file that does not parse or holds no URL string, a
\* read that fails, a URL that is not allowed) the startup URL is
\* https://grok.com/.
C12_StartupUrlSelection ==
  [][ CW_StartUrl =>
        LET rd == calls'[Len(calls) + 1]
            given == /\ rd.arg = "ok"
                     /\ store.kind = "record"
                     /\ isAllowedOf[store.restoreUrl]
        IN  /\ rd.op = "fs.readFileSync"
            /\ store' = store
            /\ given => startUrl' = store.restoreUrl
            /\ ~given => startUrl' = "https://grok.com/"
    ]_vars

\* a stored allowed URL has been selected
C12_Witness ==
  /\ pc = "onBeforeRequest"
  /\ store.kind = "record"
  /\ store.restoreUrl = CHAT_URL
  /\ startUrl = CHAT_URL
  /\ calls[2] = Call("fs.readFileSync", "ok")

\* C13: without I/O errors: right after writeRestoreUrl(url), whatever the file
\* held before, the file holds the one record of url and readRestoreUrl()
\* returns url; reading leaves the file as it is, so a second read returns the
\* same; right after clearRestoreUrl(), readRestoreUrl() returns null.
C13_RoundTrip ==
  [][ /\ ( /\ SecondInstance
           /\ Len(calls') = 2
           /\ calls'[1].op = "writeRestoreUrl"
           /\ calls'[2] = Call("fs.writeFileSync", "ok") ) =>
             /\ store'.kind = "record"
             /\ store'.restoreUrl = calls'[1].arg
             /\ readRestoreUrl("ok")' = JsStr(calls'[1].arg)
      /\ CW_StartUrl =>
           /\ store' = store
           /\ readRestoreUrl("ok")' = readRestoreUrl("ok")
      /\ ( /\ DidFinishLoad \/ DidFailLoad
           /\ calls' = << Call("clearRestoreUrl", ""), Call("fs.unlinkSync", "ok") >> ) =>
             readRestoreUrl("ok")' = JsNull
    ]_vars

\* the default URL has just been written by a hand-off
C13_Witness ==
  /\ pc = "app.quit"
  /\ event = Event("second-instance", DEFAULT_URL)
  /\ calls = << Call("writeRestoreUrl", DEFAULT_URL), Call("fs.writeFileSync", "ok") >>
  /\ store.kind = "record"
  /\ store.restoreUrl = DEFAULT_URL

\* the calls of cs to the file system
FsCalls(cs) == {k \in 1..Len(cs) : cs[k].op \in {"fs.readFileSync", "fs.writeFileSync",
                                                 "fs.unlinkSync"}}

\* C14: a callback that touches the state file raises nothing, whatever the file
\* holds and whatever the file system answers: a read that finds no file, an
\* unreadable or an unparsable one gives null, and createWindow goes on to load
\* https://grok.com/; a write that fails is followed by app.quit(); an unlink
\* that fails leaves the load event completed.
C14_PersistenceFailuresSwallowed ==
  [][ /\ FsCalls(calls') # {} => "throw" \notin Ops(calls')
      /\ CW_StartUrl =>
           LET rd == calls'[Len(calls) + 1]
           IN  (rd.arg # "ok" \/ store.kind # "record") =>
                 /\ startUrl' = DEFAULT_URL
                 /\ pc' = "onBeforeRequest"
                 /\ WinLive'
      /\ (CW_LoadURL /\ (calls[2].arg # "ok" \/ store.kind # "record")) =>
           /\ wins'[win].load = "loading"
           /\ wins'[win].target = DEFAULT_URL
      /\ (SecondInstance /\ Len(calls') = 2 /\ calls'[2].op = "fs.writeFileSync"
            /\ calls'[2].arg # "ok") =>
           pc' = "app.quit"
      /\ \A i \in WinIds :
           ( /\ calls' = << Call("clearRestoreUrl", ""), Call("fs.unlinkSync", "throw") >>
             /\ i \in Live /\ wins[i].load = "loading"
             /\ DidFinishLoad \/ DidFailLoad ) =>
               /\ pc' = "idle"
               /\ i \in DOMAIN wins'
               /\ wins'[i].load = "done"
    ]_vars

\* a record is on disk, the read failed, and the window loads the default URL
C14_Witness ==
  /\ pc = "on closed"
  /\ calls[2] = Call("fs.readFileSync", "throw")
  /\ store.kind = "record"
  /\ store.restoreUrl = CHAT_URL
  /\ WinLive
  /\ wins[win].load = "loading"
  /\ wins[win].target = DEFAULT_URL

\* the URL strings at hand that new URL() rejects
ParseFailures == {u \in KnownUrls \cup Malformed : ~newURL(u).ok}

FailClosedPolicy ==
  \A u \in ParseFailures : ~isAllowed(u) /\ ~shouldOpenExternally(u)

FirstLoadEventOfDefault(i) ==
  /\ i \in Live
  /\ wins[i].fresh
  /\ wins[i].load = "loading"
  /\ startUrl = DEFAULT_URL
  /\ i \notin DOMAIN wins' \/ ~wins'[i].fresh

\* C16 as stated: a record that is read at startup and not used as the startup
\* URL is cleared at once, and when the first load of a startup has finished or
\* failed no record is in the store.
C16_NoRecordAfterFirstLoad ==
  [][ /\ ( /\ CW_StartUrl
           /\ calls'[Len(calls) + 1] = Call("fs.readFileSync", "ok")
           /\ store.kind = "record"
           /\ ~isAllowedOf[store.restoreUrl] \/ store.restoreUrl = DEFAULT_URL ) =>
             store'.kind = "absent"
      /\ \A i \in WinIds :
           ( /\ FirstLoadEventOfRestore(i) \/ FirstLoadEventOfDefault(i)
             /\ DidFinishLoad \/ DidFailLoad ) =>
               store'.kind # "record"
    ]_vars

\* C16 amended: createWindow never clears the store itself; a record used as the
\* startup URL is cleared by the first load event when the unlink succeeds; when
\* the startup URL is the default one (the record was rejected, equal to the
\* default, unreadable, or there was none) the first load event makes no call
\* and the store stays as it is; the store is emptied by nothing but an unlink
\* in a load event.
C16_ClearedOnlyWhenRestored ==
  [][ /\ CW_StartUrl =>
           /\ store' = store
           /\ "clearRestoreUrl" \notin Ops(calls')
           /\ WinLive' /\ wins'[win].onceFinish = (startUrl' # DEFAULT_URL)
           /\ wins'[win].onceFail = (startUrl' # DEFAULT_URL)
      /\ \A i \in WinIds :
           /\ (FirstLoadEventOfRestore(i) /\ (DidFinishLoad \/ DidFailLoad)) =>
                /\ Call("clearRestoreUrl", "") \in {calls'[k] : k \in 1..Len(calls')}
                /\ Call("fs.unlinkSync", "ok") \in {calls'[k] : k \in 1..Len(calls')} =>
                     store'.kind = "absent"
           /\ (FirstLoadEventOfDefault(i) /\ (DidFinishLoad \/ DidFailLoad)) =>
                /\ calls' = << >>
                /\ store' = store
      /\ (store'.kind = "absent" /\ store.kind # "absent") =>
           /\ DidFinishLoad \/ DidFailLoad
           /\ calls' = << Call("clearRestoreUrl", ""), Call("fs.unlinkSync", "ok") >>
    ]_vars

\* the default URL has loaded and a record that was not used is still on disk
C16_Witness ==
  /\ event = Event("did-finish-load", DEFAULT_URL)
  /\ calls = << >>
  /\ startUrl = DEFAULT_URL
  /\ store = Rec(EVIL_URL, 0)
  /\ WinLive
  /\ ~wins[win].fresh

\* the store holds a record written by a hand-off (files found at the first
\* launch carry time 0)
HandOffRecord == store.kind = "record" /\ store.ts \in Times

\* C17: a record written by a hand-off stays in the store until the next
\* createWindow reads it, and that createWindow takes its URL as the startup
\* URL: apart from a later hand-off write, the record is changed by nothing but
\* the first load event of the window that was started with it.
C17_HandOffResumed ==
  [][ /\ (HandOffRecord /\ store' # store) =>
           \/ SecondInstance
           \/ /\ DidFinishLoad \/ DidFailLoad
              /\ startUrl = store.restoreUrl
              /\ \E i \in WinIds : FirstLoadEventOfRestore(i)
      /\ ( /\ CW_StartUrl
           /\ HandOffRecord
           /\ calls'[Len(calls) + 1] = Call("fs.readFileSync", "ok") ) =>
             startUrl' = store.restoreUrl
    ]_vars

\* C18: a second-instance signal that finds the window in front with a current
\* URL that is empty or that isAllowed rejects makes no store call at all: the
\* store and the windows are as before, and the next step is app.quit(), which
\* starts the quit and leaves the store alone.
C18_NothingCaptured ==
  [][ /\ ( /\ SecondInstance
           /\ InFront
           /\ wins[win].url = "" \/ ~isAllowedOf[wins[win].url] ) =>
             /\ calls' = << >>
             /\ store' = store
             /\ wins' = wins
             /\ pc' = "app.quit"
      /\ (AppQuit /\ calls = << >>) =>
           /\ calls' = << Call("app.quit", "") >>
           /\ quitting'
           /\ store' = store
    ]_vars

\* the window showed about:blank: the Primary quits and the old record is there
C18_Witness ==
  /\ event = Event("second-instance", "about:blank")
  /\ calls = << Call("app.quit", "") >>
  /\ quitting
  /\ store = Rec(EVIL_URL, 0)

\* C19: a launch that finds the lock held leaves the lock and the windows with
\* the Primary and exits; once a hand-off has reached app.quit() the system
\* comes to a state with no instance, no window and the lock free; while the quit
\* is under way no window is made, and the quit ends only in that state; from
\* there only a launch that finds the lock free starts an instance.
C19_LauncherNeverTakesOver ==
  /\ [][ /\ (Launch /\ lock) =>
              /\ lock' /\ app' = app
              /\ wins' = wins /\ win' = win
              /\ calls' = << Call("app.exit", "0") >>
         /\ quitting => DOMAIN wins' \subseteq DOMAIN wins
         /\ (quitting /\ ~quitting') => (app' = "off" /\ wins' = << >> /\ ~lock')
         /\ (app = "off" /\ app' # "off") => (Launch /\ ~lock /\ wins' = << >>)
       ]_vars
  /\ (pc = "app.quit") ~> (app = "off" /\ wins = << >> /\ ~lock)

\* the hand-off is over: nothing runs, the captured URL is on disk
C19_Witness ==
  /\ event.handler = "exit"
  /\ app = "off"
  /\ ~lock
  /\ wins = << >>
  /\ store = Rec(CHAT_URL, 1)

\* whatever string the file holds, the startup URL chosen for it is allowed
StartUrlAllowedForAnyString ==
  \A u \in TestUrls \cup KnownUrls : isAllowed(startUrlOf(JsStr(u)))

\* C20: the URL createWindow passes to loadURL is its startUrl, and isAllowed
\* accepts it, whatever the state file held; https://grok.com/ is itself
\* allowed; the request filter lets the request for the startup URL proceed.
C20_StartupUrlAllowed ==
  [][ CW_LoadURL =>
        /\ calls' = Append(calls, Call("win.loadURL", startUrl))
        /\ wins'[win].target = startUrl
        /\ isAllowed(startUrl)
        /\ isAllowed("https://grok.com/")
        /\ onBeforeRequest(startUrl) = << Call("cb", "cancel:false") >>
        /\ StartUrlAllowedForAnyString
    ]_vars

\* the file holds a URL that is not allowed and the window loads the default
C20_Witness ==
  /\ pc = "on closed"
  /\ store = Rec(EVIL_URL, 0)
  /\ calls[2] = Call("fs.readFileSync", "ok")
  /\ calls[Len(calls)] = Call("win.loadURL", DEFAULT_URL)
  /\ WinLive
  /\ wins[win].target = DEFAULT_URL

WindowOps == {"win.restore", "win.show", "win.focus"}

\* C21: the second-instance handler and the notification's click listener call
\* restore, show and focus only while win refers to a live window, and neither
\* raises; a click on the notification calls focus.
C21_WindowOpsOnLiveWindow ==
  [][ (SecondInstance \/ NotificationClick) =>
        /\ (Ops(calls') \cap WindowOps # {}) => WinLive
        /\ "throw" \notin Ops(calls')
        /\ NotificationClick => "win.focus" \in Ops(calls')
    ]_vars

\* C22: a second-instance signal that finds no live window does nothing: the
\* handler makes no call, and the store, the windows, win, the notifications,
\* the quit flag, the lock and the Primary's state are as before.
C22_NoWindowNoEffect ==
  [][ (~WinLive /\ SecondInstance) =>
        /\ calls' = << >>
        /\ store' = store
        /\ wins' = wins /\ win' = win
        /\ isWindowCreationStarted' = isWindowCreationStarted
        /\ notifs' = notifs
        /\ quitting' = quitting /\ pc' = "idle"
        /\ lock' = lock /\ app' = app
        /\ filterOn' = filterOn /\ startUrl' = startUrl
    ]_vars

\* the window was closed, the process runs on, and a signal has come in
C22_Witness ==
  /\ event = Event("second-instance", "")
  /\ calls = << >>
  /\ platform = "darwin"
  /\ app = "ready"
  /\ ~quitting
  /\ win = 0
  /\ wins = << >>
  /\ filterOn

====
